---- MODULE Spec2Model ----
(***************************************************************************)
(* A model of RV-Optimization (dopplerlib + rv_optimization.py).           *)
(*                                                                         *)
(* Real numbers are held in fixed point: the integer n stands for the      *)
(* real n / Scale.  Python values that are not numbers (None, an           *)
(* exception, a numpy array) are records with a "kind" field.              *)
(***************************************************************************)
EXTENDS Integers, Sequences, FiniteSets, TLC

VARIABLES
    dsArgs,        \* doppler_solver: the arguments of the last call
    dsResult,      \* doppler_solver: what the last call produced
    model,         \* a DopplerOptimizationModel under test
    observations,  \* an ObservationsData instance
    opResult,      \* the value of the last model operation
    kp,            \* kepler_equation_solver: its locals and position
    run,           \* rv_optimization.main: its arguments, locals and position
    par,           \* parallel_execution: one call, its chunks and threads
    memo,          \* cache_the_results: cache, counters and call history
    plot           \* rv_plotter.main: its locals and position

vars == <<dsArgs, dsResult, model, observations, opResult, kp, run, par, memo, plot>>

solverVars == <<dsArgs, dsResult>>
modelVars == <<model, observations, opResult>>
keplerVars == <<kp>>
mainVars == <<run>>
decoratorVars == <<par, memo>>
plotterVars == <<plot>>

(***************************************************************************)
(* Bounds of the model                                                     *)
(***************************************************************************)
\* fixed-point precision: n stands for n / Scale
Scale == 1000
\* longest time sequence handed to doppler_solver
MaxTimes == 2
\* the mean anomalies handed to kepler_equation_solver are the multiples of
\* Scale / AnomalyStepsPerUnit between -1 and 2*pi + 1
AnomalyStepsPerUnit == 4
\* most rows of an observations file
MaxRows == 7
\* most planets and most telescopes of a model under test
MaxPlanets == 2
MaxTelescopes == 2
\* most observations of a dataset built in memory
MaxObs == 8

\* Python's None, and "nothing yet"
None == [kind |-> "None"]

Abs(x) == IF x < 0 THEN -x ELSE x
Min2(a, b) == IF a < b THEN a ELSE b
Max2(a, b) == IF a > b THEN a ELSE b

\* 2 * numpy.pi in fixed point
TwoPi == (6283 * Scale) \div 1000

(***************************************************************************)
(* Fixed-point arithmetic, standing for numpy's float64                    *)
(***************************************************************************)
\* a / b rounded to the nearest integer, b # 0
RoundDiv(a, b) ==
    LET q == (2 * Abs(a) + Abs(b)) \div (2 * Abs(b))
    IN  IF (a < 0) # (b < 0) THEN -q ELSE q

\* the product of two fixed-point numbers
FMul(a, b) == RoundDiv(a * b, Scale)

\* the largest magnitude the fixed-point format holds; beyond it a result
\* overflows to infinity, as a float64 does beyond 1.8e308
FixedMax == 1000 * Scale

Pi == TwoPi \div 2
HalfPi == TwoPi \div 4

\* sin on [0, pi/2]: x - x^3/3! + x^5/5! - x^7/7!
SinFirstQuadrant(x) ==
    LET x2 == FMul(x, x)
        x3 == FMul(x2, x)
        x5 == FMul(x3, x2)
        x7 == FMul(x5, x2)
    IN  x - RoundDiv(x3, 6) + RoundDiv(x5, 120) - RoundDiv(x7, 5040)

SinHalfTurn(r) ==
    IF r <= HalfPi THEN SinFirstQuadrant(r) ELSE SinFirstQuadrant(Pi - r)

\* numpy.sin
Sin(x) ==
    LET r == x % TwoPi
    IN  IF r >= Pi THEN -SinHalfTurn(r - Pi) ELSE SinHalfTurn(r)

\* numpy.cos
Cos(x) == Sin(x + HalfPi)

(***************************************************************************)
(* problem_of_the_kepler.kepler_equation_solver                            *)
(***************************************************************************)
\* the default epsilon (1.0e-10 against float64's 1e-16 resolution): here ten
\* times the resolution of the fixed-point format
epsilon == Max2(Scale \div 100, 1)

\* kepler_function(anomaly) = mean_anomaly - anomaly + e * sin(anomaly)
kepler_function(mean_anomaly, orbital_eccentricity, anomaly) ==
    mean_anomaly - anomaly + FMul(orbital_eccentricity, Sin(anomaly))

\* kepler_function_derivative(anomaly) = e * cos(anomaly) - 1.0
kepler_function_derivative(orbital_eccentricity, anomaly) ==
    FMul(orbital_eccentricity, Cos(anomaly)) - Scale

\* while numpy.abs(kepler_function(eccentric_anomaly)) >= epsilon
\* (at an infinite anomaly the function is nan, and nan >= epsilon is False)
loop_continues(k) ==
    /\ k.inf = 0
    /\ Abs(kepler_function(k.mean_anomaly, k.eccentricity, k.eccentric_anomaly)) >= epsilon

\* eccentric_anomaly += -kepler_function(..) / kepler_function_derivative(..)
\* (float64 division by 0.0 gives an infinity and raises nothing)
newton_step(k) ==
    LET f == kepler_function(k.mean_anomaly, k.eccentricity, k.eccentric_anomaly)
        d == kepler_function_derivative(k.eccentricity, k.eccentric_anomaly)
        next == k.eccentric_anomaly + RoundDiv((-f) * Scale, d)
    IN  IF d = 0
        THEN [k EXCEPT !.inf = IF f < 0 THEN 1 ELSE -1]
        ELSE IF Abs(next) > FixedMax
             THEN [k EXCEPT !.inf = IF next > 0 THEN 1 ELSE -1]
             ELSE [k EXCEPT !.eccentric_anomaly = next]

(***************************************************************************)
(* decorators.check_the_bounds_of_arguments                                *)
(***************************************************************************)
\* a (min, max) pair of the bounds list; None is "unbounded"
Bound(hasMin, min, hasMax, max) ==
    [hasMin |-> hasMin, min |-> min, hasMax |-> hasMax, max |-> max]

\* bounds=[(0, None), (0, None), (0, 2 * numpy.pi), (0, None), (0, 1)]
doppler_solver_bounds ==
    << Bound(TRUE, 0, FALSE, 0),
       Bound(TRUE, 0, FALSE, 0),
       Bound(TRUE, 0, TRUE, TwoPi),
       Bound(TRUE, 0, FALSE, 0),
       Bound(TRUE, 0, TRUE, Scale) >>

\* the value returned in place of the result: the float 1e+10, which no
\* fixed-point integer of the model reaches, held as mantissa and exponent
out_of_bound_value == [mant |-> 1, exp10 |-> 10]

check_the_single_bound(value, bound) ==
    /\ (~bound.hasMin \/ bound.min <= value)
    /\ (~bound.hasMax \/ bound.max >= value)

\* all(map(check_the_single_bound, arguments[offset:], bounds))
all_bounds_hold(params, bounds) ==
    \A i \in 1..Len(bounds) : check_the_single_bound(params[i], bounds[i])

\* a time argument: one float, or a numpy array of floats
ScalarTime(v) == [kind |-> "scalar", v |-> v]
ArrayTime(s) == [kind |-> "array", v |-> s]

\* the undecorated doppler_solver: the orbital formula is evaluated and a
\* velocity of the shape of the time argument comes back
doppler_formula(time, params) ==
    [kind |-> "velocity",
     shape |-> IF time.kind = "array" THEN Len(time.v) ELSE -1,
     elems |-> << >>, exc |-> ""]

\* numpy.array([out_of_bound_value, ] * len(arguments[0]))
sentinel_array(time) ==
    IF time.kind = "array"
    THEN [kind |-> "array", shape |-> Len(time.v),
          elems |-> [i \in 1..Len(time.v) |-> out_of_bound_value], exc |-> ""]
    \* len() of a float: TypeError
    ELSE [kind |-> "raise", shape |-> -1, elems |-> << >>, exc |-> "TypeError"]

\* function_wrapper with the test of the bounds left out
function_wrapper_no_check(time, params) ==
    doppler_formula(time, params)

\* function_wrapper: the wrapped function when every bound holds, else the
\* sentinel array
function_wrapper(time, params) ==
    IF all_bounds_hold(params, doppler_solver_bounds)
    THEN doppler_formula(time, params)
    ELSE sentinel_array(time)

\* the decorated doppler_solver
doppler_solver(time, params) == function_wrapper(time, params)

(***************************************************************************)
(* Python lists                                                            *)
(***************************************************************************)
\* a slice index of a list of n elements, as list[i:] and list[:i] clamp it
PySliceIndex(n, i) == IF i < 0 THEN Max2(n + i, 0) ELSE Min2(i, n)

\* list[start:stop], indices from 0
PySlice(list, start, stop) ==
    SubSeq(list, PySliceIndex(Len(list), start) + 1, PySliceIndex(Len(list), stop))

\* list[start:]
PySliceFrom(list, start) == PySlice(list, start, Len(list))

\* list[i] is defined for -len <= i < len; a negative i counts from the end
PyIndexOk(list, i) == -Len(list) <= i /\ i < Len(list)
PyIndex(list, i) == IF i < 0 THEN list[Len(list) + i + 1] ELSE list[i + 1]

RECURSIVE Concat(_)
\* the concatenation of a sequence of sequences
Concat(lists) ==
    IF lists = << >> THEN << >> ELSE Head(lists) \o Concat(Tail(lists))

Range(f) == {f[i] : i \in DOMAIN f}

(***************************************************************************)
(* observations_data.ObservationsData                                      *)
(***************************************************************************)
\* An uncertainty is held exactly as [sq |-> s]: the real sqrt(s) / Scale.
Uncertainty(u) == [sq |-> u * u]

\* ObservationsData.__init__
ObservationsData(julian_times, radial_velocities, uncertainties, ids_of_telescopes) ==
    [kind |-> "ObservationsData",
     julian_times |-> julian_times,
     radial_velocities |-> radial_velocities,
     uncertainties |-> uncertainties,
     ids_of_telescopes |-> ids_of_telescopes,
     count |-> Len(julian_times),
     telescopes_count |-> Cardinality(Range(ids_of_telescopes))]

Array(s) == [kind |-> "array", v |-> s]
Raise(exc) == [kind |-> "raise", exc |-> exc]

\* numpy.loadtxt of a file of four-column rows: the array is squeezed, so no
\* row gives an empty array, one row a 1-d array of its 4 numbers, and two
\* rows or more a 2-d array of one row per line
loadtxt(table) ==
    IF Len(table) = 0 THEN [ndim |-> 1, len |-> 0]
    ELSE IF Len(table) = 1 THEN [ndim |-> 1, len |-> 4]
    ELSE [ndim |-> 2, len |-> Len(table)]

\* where sorted() puts a row among rows already sorted: behind every row whose
\* time is not later (the sort is stable)
InsertRow(rows, row) ==
    LET k == Cardinality({i \in 1..Len(rows) : rows[i][1] <= row[1]})
    IN  SubSeq(rows, 1, k) \o <<row>> \o SubSeq(rows, k + 1, Len(rows))

RECURSIVE sorted_by_time(_)
\* sorted(observation_data, key=lambda row: row[0])
sorted_by_time(rows) ==
    IF rows = << >> THEN << >>
    ELSE InsertRow(sorted_by_time(SubSeq(rows, 1, Len(rows) - 1)), rows[Len(rows)])

\* int(x): the fraction is dropped, towards zero
PyInt(x) == IF x >= 0 THEN x \div Scale ELSE -((-x) \div Scale)

\* the instrument column as load_data leaves it: numpy.vectorize(int)
ids_as_loaded(rows) == [i \in 1..Len(rows) |-> PyInt(rows[i][4])]

\* load_data with the options main leaves at their defaults: sorted, no
\* scaling to the mean, no unit conversion, jitter applied, integer ids
load_data(table, jitter_value) ==
    LET observation_data == loadtxt(table)
        rows == sorted_by_time(table)
    IN  IF ~(observation_data.len > 0) THEN Raise("AssertionError")
        \* a 1-d array iterates over floats, and row[0] of a float fails
        ELSE IF observation_data.ndim = 1 THEN Raise("IndexError")
        ELSE ObservationsData(
                [i \in 1..Len(rows) |-> rows[i][1]],
                [i \in 1..Len(rows) |-> rows[i][2]],
                \* numpy.sqrt(numpy.square(uncertainties) + jitter_value**2)
                [i \in 1..Len(rows) |->
                    [sq |-> rows[i][3] * rows[i][3] + jitter_value * jitter_value]],
                ids_as_loaded(rows))

(***************************************************************************)
(* optimization.DopplerOptimizationModel                                   *)
(***************************************************************************)

\* DopplerOptimizationModel.__init__; the metadata are class attributes, None
DopplerOptimizationModel(number_of_planets, number_of_telescopes, orbital_parameters, parameters_uncertainties) ==
    [kind |-> "DopplerOptimizationModel",
     number_of_planets |-> number_of_planets,
     number_of_telescopes |-> number_of_telescopes,
     orbital_parameters |-> orbital_parameters,
     parameters_uncertainties |-> parameters_uncertainties,
     parameters_count |-> Len(orbital_parameters),
     observations_file |-> None,
     stellar_jitter |-> None]

\* add_metadata
add_metadata(m, observations_file, stellar_jitter) ==
    [m EXCEPT !.observations_file = observations_file,
              !.stellar_jitter = stellar_jitter]

\* get_orbital_parameters: orbital_parameters[planet_number * 5: (planet_number + 1) * 5]
get_orbital_parameters(m, planet_number) ==
    PySlice(m.orbital_parameters, planet_number * 5, (planet_number + 1) * 5)

\* get_offsets: orbital_parameters[-number_of_telescopes:]
get_offsets(m) ==
    PySliceFrom(m.orbital_parameters, -m.number_of_telescopes)

\* split: one single-planet model per planet, each with the offsets slice
split(m) ==
    LET offsets == PySliceFrom(m.orbital_parameters, -m.number_of_telescopes)
    IN  [planet_id \in 1..m.number_of_planets |->
            DopplerOptimizationModel(1, m.number_of_telescopes,
                get_orbital_parameters(m, planet_id - 1) \o offsets, None)]

\* offsets_of_instruments: offsets_list[telescope_id] for each id
offsets_of_instruments(m, list_of_telescopes) ==
    LET offsets_list == PySliceFrom(m.orbital_parameters, -m.number_of_telescopes)
    IN  IF \A i \in DOMAIN list_of_telescopes :
               PyIndexOk(offsets_list, list_of_telescopes[i])
        THEN Array([i \in DOMAIN list_of_telescopes |->
                        PyIndex(offsets_list, list_of_telescopes[i])])
        ELSE Raise("IndexError")

\* residues_array, given what radial_velocities(julian_times) evaluated to
residues_array(m, obs, modeled_values) ==
    LET offset_values == offsets_of_instruments(m, obs.ids_of_telescopes)
    IN  IF offset_values.kind = "raise" THEN offset_values
        ELSE Array([i \in 1..obs.count |->
                modeled_values[i] - obs.radial_velocities[i] + offset_values.v[i]])

\* chi2_sum / (observations.count - parameters_count - 1): numpy's float
\* division gives inf or nan for a zero divisor and raises nothing.
\* chi2_sum is kept as its terms (residue, uncertainty).
chi2_division(terms, dof) ==
    IF dof # 0 THEN [kind |-> "number", terms |-> terms, dof |-> dof]
    ELSE IF \A i \in DOMAIN terms : terms[i].residue = 0
         THEN [kind |-> "nan", terms |-> terms, dof |-> dof]
         ELSE [kind |-> "inf", terms |-> terms, dof |-> dof]

\* quality_of_the_fit
quality_of_the_fit(m, obs, modeled_values) ==
    LET residues == residues_array(m, obs, modeled_values)
    IN  IF residues.kind = "raise" THEN residues
        ELSE chi2_division(
                [i \in 1..obs.count |->
                    [residue |-> residues.v[i], uncertainty |-> obs.uncertainties[i]]],
                obs.count - m.parameters_count - 1)

(***************************************************************************)
(* Calls of doppler_solver                                                 *)
(***************************************************************************)
\* sequences over S of length 0..n
SeqsUpTo(S, n) == UNION {[1..k -> S] : k \in 0..n}

TimeValues == {0, Scale}
TimeInputs ==
    {ScalarTime(v) : v \in TimeValues}
        \cup {ArrayTime(s) : s \in SeqsUpTo(TimeValues, MaxTimes)}

\* values on, inside and outside the declared bounds
ParamValues == {-1, 0, Scale, Scale + 1, TwoPi, TwoPi + 1}
ParamTuples == [1..5 -> ParamValues]

NoModelState ==
    /\ model = None
    /\ observations = None
    /\ opResult = None

\* no call of kepler_equation_solver has been made
NoCall ==
    [kind |-> "kepler_equation_solver", pc |-> "idle", mean_anomaly |-> 0,
     eccentricity |-> 0, eccentric_anomaly |-> 0, inf |-> 0]

KeplerIdle == kp = NoCall

\* main has not been started
NotStarted ==
    [kind |-> "main", pc |-> "start", table |-> << >>, number_of_planets |-> 0,
     stellar_jitter |-> 0, number_of_telescopes |-> 0, loaded |-> None,
     de_model |-> None, initial_parameters |-> None, maxfev |-> 0,
     lm_model |-> None, de_quality |-> None, lm_quality |-> None,
     budget_exhausted |-> FALSE, saved |-> None, error |-> ""]

MainIdle == run = NotStarted

\* no call of a function wrapped by parallel_execution has been made
NoParallelCall ==
    [kind |-> "parallel_execution", pc |-> "idle", x_array |-> << >>,
     pool_size |-> 0, data_parts |-> << >>, task |-> << >>,
     results |-> << >>, completed |-> << >>, returned |-> << >>]

\* cache_the_results has wrapped the function and no call has been made:
\* function.cache = dict(), function.calls = 0, function.jumps = 0
FreshlyWrapped ==
    [kind |-> "cache_the_results", cache |-> << >>, calls |-> 0, jumps |-> 0,
     made |-> 0, answered_from_cache |-> 0, invoked |-> << >>,
     arguments |-> << >>, value |-> [kind |-> "None"]]

\* rv_plotter.main has not been started
PlotterNotStarted ==
    [kind |-> "rv_plotter", pc |-> "start", doppler_model |-> [kind |-> "None"],
     loaded |-> [kind |-> "None"], observations |-> [kind |-> "None"],
     modeled |-> << >>, residues |-> << >>, error |-> ""]

DecoratorsAndPlotterIdle ==
    /\ par = NoParallelCall
    /\ memo = FreshlyWrapped
    /\ plot = PlotterNotStarted

SolverInit ==
    /\ dsArgs = None
    /\ dsResult = None
    /\ NoModelState
    /\ KeplerIdle
    /\ MainIdle
    /\ DecoratorsAndPlotterIdle

\* one call of the decorated doppler_solver
CallDopplerSolver ==
    /\ dsArgs = None
    /\ \E time \in TimeInputs, params \in ParamTuples :
          /\ dsArgs' = [kind |-> "call", time |-> time, params |-> params]
          /\ dsResult' = doppler_solver(time, params)
    /\ UNCHANGED <<modelVars, keplerVars, mainVars, decoratorVars, plotterVars>>

SolverNext == CallDopplerSolver

SpecSolver == SolverInit /\ [][SolverNext]_vars

\* some parameter of the last call lies outside its declared bound
OutOfBound(params) ==
    \/ params[1] < 0
    \/ params[2] < 0
    \/ params[3] < 0 \/ params[3] > TwoPi
    \/ params[4] < 0
    \/ params[5] < 0 \/ params[5] > Scale

\* C1: for a time sequence of any length (0 included) and a parameter tuple
\* with a parameter outside its bound, doppler_solver does not evaluate the
\* orbital formula and returns an array of len(t) elements, each 1e10.
C1_SentinelForSequences ==
    (dsArgs # None /\ dsArgs.time.kind = "array" /\ OutOfBound(dsArgs.params)) =>
        /\ dsResult.kind = "array"
        /\ dsResult.shape = Len(dsArgs.time.v)
        /\ Len(dsResult.elems) = Len(dsArgs.time.v)
        /\ \A i \in 1..Len(dsResult.elems) : dsResult.elems[i] = [mant |-> 1, exp10 |-> 10]

\* a call on a two-element sequence with eccentricity above 1
C1_Witness ==
    /\ dsArgs # None
    /\ dsArgs.time.kind = "array"
    /\ Len(dsArgs.time.v) = 2
    /\ dsArgs.params[5] > Scale
    /\ dsResult.kind = "array"

\* C2: a bound violation is never fatal, for a scalar time as for a
\* sequence: the call returns the sentinel and raises nothing.
C2_NeverRaises ==
    (dsArgs # None /\ OutOfBound(dsArgs.params)) =>
        /\ dsResult.kind = "array"
        /\ \A i \in 1..Len(dsResult.elems) : dsResult.elems[i] = out_of_bound_value

\* the divisor of orbital_period = 2 * numpy.pi / orbital_period
orbital_period_divisor(params) == params[4]

\* the divisor of (1.0 + eccentricity) / (1.0 - eccentricity)
eccentricity_divisor(params) == Scale - params[5]

\* C11: the orbital formula is evaluated only on tuples with
\* eccentricity < 1 and orbital_period > 0; a tuple with eccentricity = 1 or
\* orbital_period = 0 gets the sentinel and reaches neither the division
\* 2*pi/P nor the division (1+e)/(1-e).
C11_DivisionsNeverByZero ==
    (dsArgs # None /\ dsResult.kind = "velocity") =>
        /\ dsArgs.params[5] < Scale
        /\ dsArgs.params[4] > 0
        /\ orbital_period_divisor(dsArgs.params) # 0
        /\ eccentricity_divisor(dsArgs.params) # 0

(***************************************************************************)
(* Operations on a DopplerOptimizationModel built in memory                *)
(***************************************************************************)
\* flat parameter arrays of length n: all elements distinct, or all zero
ParamVectors(n) == {[i \in 1..n |-> 10 * i], [i \in 1..n |-> 0]}

\* datasets built by ObservationsData(...): n observations at increasing
\* times, the instruments 0..k-1 taking turns
BuiltObservations ==
    {ObservationsData([i \in 1..n |-> i * Scale],
                      [i \in 1..n |-> (i % 2) * Scale],
                      [i \in 1..n |-> Uncertainty(Scale)],
                      [i \in 1..n |-> (i - 1) % k]) :
        n \in 1..MaxObs, k \in 1..MaxTelescopes}

\* what radial_velocities(julian_times) may have evaluated to
ModeledValues(obs) ==
    {[i \in 1..obs.count |-> 0], obs.radial_velocities}

ModelInit ==
    /\ dsArgs = None
    /\ dsResult = None
    /\ model = None
    /\ observations = None
    /\ opResult = None
    /\ KeplerIdle
    /\ MainIdle
    /\ DecoratorsAndPlotterIdle

\* DopplerOptimizationModel(number_of_planets, number_of_telescopes, p)
Construct ==
    \E planets \in 1..MaxPlanets, telescopes \in 0..MaxTelescopes :
        \E p \in ParamVectors(5 * planets + telescopes) :
            /\ model' = DopplerOptimizationModel(planets, telescopes, p, None)
            /\ opResult' = None
            /\ UNCHANGED <<observations, solverVars, keplerVars, mainVars, decoratorVars, plotterVars>>

BuildObservations ==
    /\ observations' \in BuiltObservations
    /\ opResult' = None
    /\ UNCHANGED <<model, solverVars, keplerVars, mainVars, decoratorVars, plotterVars>>

\* get_orbital_parameters(0), ..., get_orbital_parameters(n - 1), get_offsets()
ReadAccessors ==
    /\ model # None
    /\ opResult' = [kind |-> "accessors",
                    planets |-> [k \in 1..model.number_of_planets |->
                                    get_orbital_parameters(model, k - 1)],
                    offsets |-> get_offsets(model)]
    /\ UNCHANGED <<model, observations, solverVars, keplerVars, mainVars, decoratorVars, plotterVars>>

Split ==
    /\ model # None
    /\ opResult' = [kind |-> "split", models |-> split(model), of |-> model]
    /\ UNCHANGED <<model, observations, solverVars, keplerVars, mainVars, decoratorVars, plotterVars>>

OffsetsOfInstruments ==
    /\ model # None
    /\ observations # None
    /\ opResult' = [kind |-> "offsets",
                    value |-> offsets_of_instruments(model, observations.ids_of_telescopes)]
    /\ UNCHANGED <<model, observations, solverVars, keplerVars, mainVars, decoratorVars, plotterVars>>

QualityOfTheFit ==
    /\ model # None
    /\ observations # None
    /\ \E modeled_values \in ModeledValues(observations) :
           opResult' = [kind |-> "quality",
                        value |-> quality_of_the_fit(model, observations, modeled_values)]
    /\ UNCHANGED <<model, observations, solverVars, keplerVars, mainVars, decoratorVars, plotterVars>>

ModelNext ==
    \/ Construct
    \/ BuildObservations
    \/ ReadAccessors
    \/ Split
    \/ OffsetsOfInstruments
    \/ QualityOfTheFit

SpecModel == ModelInit /\ [][ModelNext]_vars

\* the model's flat array has the declared length
WellFormed(m) ==
    Len(m.orbital_parameters) = 5 * m.number_of_planets + m.number_of_telescopes

\* C3: for bodyCount >= 1, instrumentCount >= 0 and a flat array p of length
\* 5*bodyCount + instrumentCount, the per-body slices followed by
\* get_offsets() are p again, and get_offsets() has instrumentCount elements.
C3_AccessorsRoundTrip ==
    (model # None /\ WellFormed(model) /\ opResult.kind = "accessors") =>
        /\ Concat(opResult.planets) \o opResult.offsets = model.orbital_parameters
        /\ Len(opResult.offsets) = model.number_of_telescopes

\* C4: split() returns bodyCount models in body order; the k-th is a model of
\* one planet with the same instrument count whose parameters are body k's 5
\* parameters followed by all the offsets, 5 + instrumentCount in all; the
\* original model is unchanged.
C4_SplitShape ==
    (model # None /\ WellFormed(model) /\ opResult.kind = "split") =>
        /\ opResult.of = model
        /\ Len(opResult.models) = model.number_of_planets
        /\ \A k \in 1..Len(opResult.models) :
              /\ opResult.models[k].number_of_planets = 1
              /\ opResult.models[k].number_of_telescopes = model.number_of_telescopes
              /\ Len(opResult.models[k].orbital_parameters) = 5 + model.number_of_telescopes
              /\ opResult.models[k].orbital_parameters =
                    SubSeq(model.orbital_parameters, 5 * (k - 1) + 1, 5 * k)
                        \o SubSeq(model.orbital_parameters,
                                  5 * model.number_of_planets + 1,
                                  Len(model.orbital_parameters))

\* C5: quality_of_the_fit never divides by a zero or negative degrees of
\* freedom: with observationCount <= parameterCount + 1 it reports a
\* fit-degenerate condition, not a number, an inf/nan or a division error.
C5_DegenerateFitReported ==
    (model # None /\ observations # None /\ opResult.kind = "quality"
        /\ observations.count <= model.parameters_count + 1) =>
        opResult.value.kind = "fit-degenerate"

(***************************************************************************)
(* A call of kepler_equation_solver, one loop test or loop body at a time  *)
(***************************************************************************)
MeanAnomalies ==
    {RoundDiv(j * Scale, AnomalyStepsPerUnit) :
        j \in (-AnomalyStepsPerUnit)..(8 * AnomalyStepsPerUnit)}

\* circular, moderate and high eccentricities, and two above 1, which
\* kepler_equation_solver accepts as it checks nothing
Eccentricities ==
    {0, Scale \div 2, (9 * Scale) \div 10, (3 * Scale) \div 2, 25 * Scale}

KeplerInit ==
    /\ dsArgs = None
    /\ dsResult = None
    /\ NoModelState
    /\ KeplerIdle
    /\ MainIdle
    /\ DecoratorsAndPlotterIdle

\* the call: mean_anomaly = numpy.mod(mean_anomaly, 2 * numpy.pi);
\* eccentric_anomaly = mean_anomaly
KeplerCall ==
    /\ kp.pc = "idle"
    /\ \E M \in MeanAnomalies, e \in Eccentricities :
          kp' = [kind |-> "kepler_equation_solver", pc |-> "test",
                 mean_anomaly |-> M % TwoPi, eccentricity |-> e,
                 eccentric_anomaly |-> M % TwoPi, inf |-> 0]
    /\ UNCHANGED <<solverVars, modelVars, mainVars, decoratorVars, plotterVars>>

\* the while condition
KeplerTest ==
    /\ kp.pc = "test"
    /\ kp' = [kp EXCEPT !.pc = IF loop_continues(kp) THEN "body" ELSE "returned"]
    /\ UNCHANGED <<solverVars, modelVars, mainVars, decoratorVars, plotterVars>>

\* the while body
KeplerBody ==
    /\ kp.pc = "body"
    /\ kp' = [newton_step(kp) EXCEPT !.pc = "test"]
    /\ UNCHANGED <<solverVars, modelVars, mainVars, decoratorVars, plotterVars>>

KeplerNext == KeplerCall \/ KeplerTest \/ KeplerBody

\* a running call keeps executing: its next statement is always taken
SpecKepler ==
    KeplerInit /\ [][KeplerNext]_vars /\ WF_vars(KeplerTest) /\ WF_vars(KeplerBody)

KeplerRunning == kp.pc \in {"test", "body"}
KeplerReturned == kp.pc = "returned"

\* C6: for every mean anomaly and eccentricity kepler_equation_solver
\* terminates: every call that has started eventually returns.
C6_SolverTerminates == KeplerRunning ~> KeplerReturned

(***************************************************************************)
(* optimization.evolutional_optimization, gradient_optimization            *)
(***************************************************************************)
SeqMin(s) == CHOOSE x \in Range(s) : \A y \in Range(s) : x <= y
SeqMax(s) == CHOOSE x \in Range(s) : \A y \in Range(s) : x >= y

\* list * n
RECURSIVE Repeat(_, _)
Repeat(list, n) == IF n <= 0 THEN << >> ELSE list \o Repeat(list, n - 1)

\* bounds_of_all_free_paramters, as (min, max) pairs
bounds_of_all_free_parameters(number_of_planets, number_of_telescopes, obs) ==
    Repeat(<< <<SeqMin(obs.julian_times), SeqMax(obs.julian_times)>>,
              <<0, SeqMax(obs.radial_velocities) - SeqMin(obs.radial_velocities)>>,
              <<0, TwoPi>>,
              <<1 * Scale, 2000 * Scale>>,
              <<Scale \div 1000, (999 * Scale) \div 1000>> >>,
           number_of_planets)
        \o Repeat(<< <<-25 * Scale, 25 * Scale>> >>, number_of_telescopes)

\* the points differential_evolution may end at: inside the bounds (here the
\* two corners)
DifferentialEvolutionResults(bounds) ==
    {[i \in 1..Len(bounds) |-> bounds[i][1]], [i \in 1..Len(bounds) |-> bounds[i][2]]}

\* _multiplanetary_doppler_measurement: a raise of the model passes through
chi2_objective(number_of_planets, number_of_telescopes, obs, orbital_parameters) ==
    quality_of_the_fit(
        DopplerOptimizationModel(number_of_planets, number_of_telescopes,
                                 orbital_parameters, None),
        obs, [i \in 1..obs.count |-> 0])

\* evolutional_optimization handing its point on as uncertainties too, and
\* not looking at what the objective raised
evolutional_optimization_with_uncertainties(number_of_planets, number_of_telescopes, obs, x) ==
    DopplerOptimizationModel(number_of_planets, number_of_telescopes, x, Array(x))

\* evolutional_optimization, x being where differential_evolution ended
evolutional_optimization(number_of_planets, number_of_telescopes, obs, x) ==
    IF chi2_objective(number_of_planets, number_of_telescopes, obs, x).kind = "raise"
    THEN chi2_objective(number_of_planets, number_of_telescopes, obs, x)
    ELSE DopplerOptimizationModel(number_of_planets, number_of_telescopes, x, None)

\* maxfev=500*len(initial_parameters)
MaxFevPerParameter == 500

\* what the least-squares iteration of curve_fit may end in: convergence at
\* some point with some covariance diagonal, or its budget used up
LeastSquaresOutcomes(initial_parameters) ==
    {[converged |-> TRUE, popt |-> popt, pcov_diagonal |-> d] :
        popt \in {initial_parameters,
                  [i \in 1..Len(initial_parameters) |-> initial_parameters[i] + 1]},
        d \in {[i \in 1..Len(initial_parameters) |-> 2]}}
    \cup {[converged |-> FALSE, popt |-> initial_parameters,
           pcov_diagonal |-> [i \in 1..Len(initial_parameters) |-> 0]]}

\* scipy's curve_fit: a raise of the objective passes through, more parameters
\* than observations is a TypeError, no convergence within maxfev a
\* RuntimeError
curve_fit(number_of_planets, number_of_telescopes, obs, p0, maxfev, outcome) ==
    LET offsets == offsets_of_instruments(
                       DopplerOptimizationModel(number_of_planets,
                           number_of_telescopes, p0, None),
                       obs.ids_of_telescopes)
    IN  IF offsets.kind = "raise" THEN offsets
        ELSE IF Len(p0) > obs.count THEN Raise("TypeError")
        ELSE IF ~outcome.converged THEN Raise("RuntimeError")
        ELSE [kind |-> "fit", popt |-> outcome.popt,
              pcov_diagonal |-> outcome.pcov_diagonal]

\* the least-squares iteration ran and used up its maxfev evaluations
budget_exhausted(number_of_planets, number_of_telescopes, obs, p0, outcome) ==
    curve_fit(number_of_planets, number_of_telescopes, obs, p0,
              MaxFevPerParameter * Len(p0), outcome) = Raise("RuntimeError")

\* gradient_optimization swallowing a failed fit and returning the point it
\* has
gradient_optimization_best_so_far(number_of_planets, number_of_telescopes, obs, initial_parameters, outcome) ==
    DopplerOptimizationModel(number_of_planets, number_of_telescopes,
                             outcome.popt, None)

\* gradient_optimization, outcome being how the least-squares iteration ends
gradient_optimization(number_of_planets, number_of_telescopes, obs, initial_parameters, outcome) ==
    LET fit == curve_fit(number_of_planets, number_of_telescopes, obs,
                         initial_parameters,
                         MaxFevPerParameter * Len(initial_parameters), outcome)
    IN  IF fit.kind = "raise" THEN fit
        ELSE DopplerOptimizationModel(number_of_planets, number_of_telescopes,
                fit.popt,
                \* numpy.diagonal(covariation_array) ** 2
                Array([i \in 1..Len(fit.popt) |->
                          fit.pcov_diagonal[i] * fit.pcov_diagonal[i]]))

(***************************************************************************)
(* rv_optimization.main, one statement at a time                           *)
(***************************************************************************)
\* the instrument column of a file: the ids of its rows, taking turns
IdColumns ==
    { <<0, 0>>, <<0, Scale>>, <<Scale, 2 * Scale>>, <<0, -Scale>>,
      <<Scale \div 2, Scale + Scale \div 2>> }

\* observation files of n rows <<julian_time, radial_velocity, uncertainty,
\* instrument_id>>, in increasing or decreasing order of time
ObservationFiles ==
    {[i \in 1..n |->
        << (IF ascending THEN i ELSE n + 1 - i) * Scale,
           (i % 3) * Scale,
           Scale,
           ids[(i % 2) + 1] >>] :
        n \in 0..MaxRows, ascending \in BOOLEAN, ids \in IdColumns}

StellarJitters == {0, 3 * Scale}

MainInit ==
    /\ dsArgs = None
    /\ dsResult = None
    /\ NoModelState
    /\ KeplerIdle
    /\ MainIdle
    /\ DecoratorsAndPlotterIdle

Failed(exc) == [run EXCEPT !.pc = "failed", !.error = exc]

\* observations = load_data(args.observation_data_file, jitter_value=...);
\* number_of_planets, number_of_telescopes
MainLoad ==
    /\ run.pc = "start"
    /\ \E table \in ObservationFiles, planets \in 1..MaxPlanets,
          jitter \in StellarJitters :
          LET loaded == load_data(table, jitter)
              args == [run EXCEPT !.table = table, !.number_of_planets = planets,
                                  !.stellar_jitter = jitter]
          IN  IF loaded.kind = "raise"
              THEN /\ run' = [args EXCEPT !.pc = "failed", !.error = loaded.exc]
                   /\ UNCHANGED observations
              ELSE /\ run' = [args EXCEPT !.pc = "stage1", !.loaded = loaded,
                                  !.number_of_telescopes = loaded.telescopes_count]
                   /\ observations' = loaded
    /\ UNCHANGED <<solverVars, keplerVars, model, opResult, decoratorVars, plotterVars>>

\* de_model = evolutional_optimization(...)
MainStage1 ==
    /\ run.pc = "stage1"
    /\ \E x \in DifferentialEvolutionResults(
                    bounds_of_all_free_parameters(run.number_of_planets,
                        run.number_of_telescopes, observations)) :
          LET de_model == evolutional_optimization(run.number_of_planets,
                              run.number_of_telescopes, observations, x)
          IN  run' = IF de_model.kind = "raise" THEN Failed(de_model.exc)
                     ELSE [run EXCEPT !.pc = "stage2", !.de_model = de_model]
    /\ UNCHANGED <<solverVars, keplerVars, modelVars, decoratorVars, plotterVars>>

\* lm_model = gradient_optimization(..., de_model.orbital_parameters)
MainStage2 ==
    /\ run.pc = "stage2"
    /\ \E outcome \in LeastSquaresOutcomes(run.de_model.orbital_parameters) :
          LET p0 == run.de_model.orbital_parameters
              lm_model == gradient_optimization(run.number_of_planets,
                              run.number_of_telescopes, observations, p0, outcome)
              called == [run EXCEPT !.initial_parameters = Array(p0),
                                    !.maxfev = MaxFevPerParameter * Len(p0),
                                    !.budget_exhausted =
                                        budget_exhausted(run.number_of_planets,
                                            run.number_of_telescopes, observations,
                                            p0, outcome)]
          IN  run' = IF lm_model.kind = "raise"
                     THEN [called EXCEPT !.pc = "failed", !.error = lm_model.exc]
                     ELSE [called EXCEPT !.pc = "quality", !.lm_model = lm_model]
    /\ UNCHANGED <<solverVars, keplerVars, modelVars, decoratorVars, plotterVars>>

\* de_quality = de_model.quality_of_the_fit(observations); lm_quality likewise
MainQuality ==
    /\ run.pc = "quality"
    /\ \E de_values \in ModeledValues(observations),
          lm_values \in ModeledValues(observations) :
          run' = [run EXCEPT
                    !.pc = "save",
                    !.de_quality = quality_of_the_fit(run.de_model, observations, de_values),
                    !.lm_quality = quality_of_the_fit(run.lm_model, observations, lm_values)]
    /\ UNCHANGED <<solverVars, keplerVars, modelVars, decoratorVars, plotterVars>>

\* lm_model.add_metadata(...); save_model(output_file, lm_model)
MainSave ==
    /\ run.pc = "save"
    /\ LET with_metadata == add_metadata(run.lm_model, run.table, run.stellar_jitter)
       IN  run' = [run EXCEPT !.pc = "summary", !.lm_model = with_metadata,
                              !.saved = with_metadata]
    /\ UNCHANGED <<solverVars, keplerVars, modelVars, decoratorVars, plotterVars>>

\* print_computation_summary(...)
MainSummary ==
    /\ run.pc = "summary"
    /\ run' = [run EXCEPT !.pc = "done"]
    /\ UNCHANGED <<solverVars, keplerVars, modelVars, decoratorVars, plotterVars>>

MainNext ==
    \/ MainLoad
    \/ MainStage1
    \/ MainStage2
    \/ MainQuality
    \/ MainSave
    \/ MainSummary

SpecMain == MainInit /\ [][MainNext]_vars

\* C7: every dataset load_data produces has the dense instrument ids
\* 0..telescopes_count-1, so that offsets_of_instruments of a model with
\* telescopes_count offsets gives each observation its own instrument's
\* offset, with no index error and no wrap-around.
C7_LoadedIdsAreDense ==
    (run.loaded # None) =>
        /\ Range(run.loaded.ids_of_telescopes) = 0..(run.loaded.telescopes_count - 1)
        /\ LET k == run.loaded.telescopes_count
               m == DopplerOptimizationModel(1, k, [i \in 1..(5 + k) |-> 10 * i], None)
               offsets == offsets_of_instruments(m, run.loaded.ids_of_telescopes)
           IN  /\ offsets.kind = "array"
               /\ \A i \in 1..run.loaded.count :
                     offsets.v[i] = 10 * (5 + run.loaded.ids_of_telescopes[i] + 1)

\* C8: stage 2 starts only after stage 1 has returned, from exactly the flat
\* vector of 5*planets + telescopes parameters stage 1 produced; the stage-1
\* model has no parameter uncertainties; neither stage modifies the dataset.
C8_StagesInSequence ==
    /\ (run.de_model # None) =>
          /\ run.de_model.parameters_uncertainties = None
          /\ observations = run.loaded
    /\ (run.initial_parameters # None) =>
          /\ run.de_model # None
          /\ run.initial_parameters.v = run.de_model.orbital_parameters
          /\ Len(run.initial_parameters.v) =
                5 * run.number_of_planets + run.number_of_telescopes
          /\ observations = run.loaded

\* stage 2 has returned a model fitted from the stage-1 point
C8_Witness ==
    /\ run.pc = "quality"
    /\ run.initial_parameters # None
    /\ run.number_of_telescopes = 2
    /\ run.lm_model # None

\* C9: when stage 2 uses up its budget of 500 * parameterCount evaluations
\* without converging, the run ends in a failure of its own kind: no fitted
\* model is returned, no metadata attached, no model file saved.
C9_NonConvergenceIsReported ==
    run.budget_exhausted =>
        /\ run.maxfev = 500 * Len(run.de_model.orbital_parameters)
        /\ run.pc = "failed"
        /\ run.error = "RuntimeError"
        /\ run.lm_model = None
        /\ run.saved = None

\* stage 2 ran on a dataset with enough observations and did not converge
C9_Witness ==
    /\ run.budget_exhausted
    /\ run.pc = "failed"
    /\ Len(run.table) >= 6

\* C10: load_data fails with a data-empty error and returns no dataset for a
\* file of no rows, and for a file of one row or more returns a dataset whose
\* four columns and count all have the number of rows.
C10_LoadDataContract ==
    (run.pc # "start") =>
        /\ (Len(run.table) = 0) =>
              (run.loaded = None /\ run.pc = "failed" /\ run.error = "AssertionError")
        /\ (Len(run.table) >= 1) =>
              /\ run.loaded # None
              /\ run.loaded.count = Len(run.table)
              /\ Len(run.loaded.julian_times) = Len(run.table)
              /\ Len(run.loaded.radial_velocities) = Len(run.table)
              /\ Len(run.loaded.uncertainties) = Len(run.table)
              /\ Len(run.loaded.ids_of_telescopes) = Len(run.table)

(***************************************************************************)
(* decorators.parallel_execution                                           *)
(***************************************************************************)
\* most processors pool.cpu_count() reports
MaxCpus == 2
\* longest x_array handed to the wrapped function
MaxInput == 3

\* numpy.array_split(x_array, sections): sections chunks in input order, the
\* first len % sections of them one element longer, empty ones when the
\* array is shorter than sections
array_split(x_array, sections) ==
    LET each_section == Len(x_array) \div sections
        extras == Len(x_array) % sections
        start(i) == (i - 1) * each_section + Min2(i - 1, extras)
        size(i) == each_section + (IF i <= extras THEN 1 ELSE 0)
    IN  [i \in 1..sections |-> SubSeq(x_array, start(i) + 1, start(i) + size(i))]

\* the wrapped function on one element
elementwise(value) == 2 * value + Scale

\* function(part_of_data, *args): the wrapped function on one chunk
function_on_part(part_of_data) ==
    [i \in 1..Len(part_of_data) |-> elementwise(part_of_data[i])]

\* a map that keeps the results in the order the threads finish
store_result_as_completed(results, i, value) ==
    LET free == {j \in 1..Len(results) : results[j] = None}
        first == CHOOSE j \in free : \A k \in free : j <= k
    IN  [results EXCEPT ![first] = value]

\* jobs_pool.map: the result of task i is kept at position i
store_result(results, i, value) ==
    [results EXCEPT ![i] = value]

XValues == {0, Scale, 2 * Scale}

ParallelInit ==
    /\ dsArgs = None
    /\ dsResult = None
    /\ NoModelState
    /\ KeplerIdle
    /\ MainIdle
    /\ DecoratorsAndPlotterIdle

\* the wrapper is called: the array is split and every chunk is queued
ParallelCall ==
    /\ par.pc = "idle"
    /\ \E cpu_count \in 1..MaxCpus, x_array \in SeqsUpTo(XValues, MaxInput) :
          LET pool_size == cpu_count * 2
          IN  par' = [par EXCEPT !.pc = "mapping",
                                 !.x_array = x_array,
                                 !.pool_size = pool_size,
                                 !.data_parts = array_split(x_array, pool_size),
                                 !.task = [i \in 1..pool_size |-> "queued"],
                                 !.results = [i \in 1..pool_size |-> None]]
    /\ UNCHANGED <<solverVars, modelVars, keplerVars, mainVars, memo, plotterVars>>

\* an idle thread of the pool takes the next queued chunk
WorkerTakes ==
    /\ par.pc = "mapping"
    /\ \E i \in 1..par.pool_size :
          /\ par.task[i] = "queued"
          /\ \A j \in 1..(i - 1) : par.task[j] # "queued"
          /\ par' = [par EXCEPT !.task[i] = "running"]
    /\ UNCHANGED <<solverVars, modelVars, keplerVars, mainVars, memo, plotterVars>>

\* a thread finishes its chunk, in any order among the running ones
WorkerCompletes ==
    /\ par.pc = "mapping"
    /\ \E i \in 1..par.pool_size :
          /\ par.task[i] = "running"
          /\ par' = [par EXCEPT
                !.task[i] = "done",
                !.completed = Append(@, i),
                !.results = store_result(@, i, Array(function_on_part(par.data_parts[i])))]
    /\ UNCHANGED <<solverVars, modelVars, keplerVars, mainVars, memo, plotterVars>>

\* every chunk is done: map returns and numpy.concatenate merges the results
MapReturns ==
    /\ par.pc = "mapping"
    /\ \A i \in 1..par.pool_size : par.task[i] = "done"
    /\ par' = [par EXCEPT
          !.pc = "returned",
          !.returned = Concat([i \in 1..par.pool_size |-> par.results[i].v])]
    /\ UNCHANGED <<solverVars, modelVars, keplerVars, mainVars, memo, plotterVars>>

ParallelNext ==
    \/ ParallelCall
    \/ WorkerTakes
    \/ WorkerCompletes
    \/ MapReturns

SpecParallel == ParallelInit /\ [][ParallelNext]_vars

\* C12: whatever the input (shorter than the pool included) and whatever
\* the order in which the threads finish, the wrapped function returns a
\* sequence as long as x whose i-th element is the elementwise result on
\* x[i].
C12_MergedInInputOrder ==
    par.pc = "returned" =>
        /\ Len(par.returned) = Len(par.x_array)
        /\ \A i \in 1..Len(par.x_array) :
              par.returned[i] = elementwise(par.x_array[i])

\* a call returned on an input shorter than the pool, with distinct
\* elements, whose last chunk finished before its first
C12_Witness ==
    /\ par.pc = "returned"
    /\ Len(par.x_array) >= 2
    /\ Len(par.x_array) < par.pool_size
    /\ par.x_array[1] # par.x_array[2]
    /\ \E i \in 1..par.pool_size : par.data_parts[i] = << >>
    /\ par.completed[1] > par.completed[2]

(***************************************************************************)
(* decorators.cache_the_results                                            *)
(***************************************************************************)
\* most calls of the wrapper in one behaviour
MaxCalls == 4
\* most positional arguments of one call
MaxArguments == 2

\* the wrapped function: deterministic, and it returns for every tuple
RECURSIVE wrapped_function(_)
wrapped_function(arguments) ==
    IF arguments = << >> THEN Scale
    ELSE LET n == Len(arguments)
         IN  (n + 1) * arguments[n] + 1 + wrapped_function(SubSeq(arguments, 1, n - 1))

\* a wrapper that computes the result and does not keep it
cached_function_wrapper_without_store(m, arguments) ==
    LET counted == [m EXCEPT !.calls = @ + 1, !.arguments = arguments]
    IN  IF arguments \in DOMAIN m.cache /\ arguments # << >>
        THEN [counted EXCEPT !.jumps = @ + 1, !.value = m.cache[arguments]]
        ELSE [counted EXCEPT !.invoked = Append(@, arguments),
                             !.value = wrapped_function(arguments)]

\* cached_function_wrapper(*arguments): calls is counted; a non-empty tuple
\* found in the cache counts a jump and is answered from the cache; else the
\* function is invoked and its result is stored and returned
cached_function_wrapper(m, arguments) ==
    LET counted == [m EXCEPT !.calls = @ + 1, !.arguments = arguments]
    IN  IF arguments \in DOMAIN m.cache /\ arguments # << >>
        THEN [counted EXCEPT !.jumps = @ + 1, !.value = m.cache[arguments]]
        ELSE LET calculated_result == wrapped_function(arguments)
             IN  [counted EXCEPT
                    !.invoked = Append(@, arguments),
                    !.cache = (arguments :> calculated_result) @@ @,
                    !.value = calculated_result]

ArgumentValues == {0, Scale}
ArgumentTuples == SeqsUpTo(ArgumentValues, MaxArguments)

CacheInit ==
    /\ dsArgs = None
    /\ dsResult = None
    /\ NoModelState
    /\ KeplerIdle
    /\ MainIdle
    /\ DecoratorsAndPlotterIdle

\* one call of the wrapper; made and answered_from_cache are the observer's
\* own counts of the calls and of the calls that did not invoke the function
CallCached ==
    /\ memo.made < MaxCalls
    /\ \E arguments \in ArgumentTuples :
          LET after == cached_function_wrapper(memo, arguments)
          IN  memo' = [after EXCEPT
                !.made = @ + 1,
                !.answered_from_cache =
                    IF Len(after.invoked) = Len(memo.invoked) THEN @ + 1 ELSE @]
    /\ UNCHANGED <<solverVars, modelVars, keplerVars, mainVars, par, plotterVars>>

CacheNext == CallCached

SpecCache == CacheInit /\ [][CacheNext]_vars

\* C13: after any sequence of calls, calls is the number of calls made,
\* jumps the number answered from the cache (jumps <= calls), the wrapped
\* function was invoked calls - jumps times and at most once per distinct
\* non-empty argument tuple, and the last call returned the function's value
\* for its arguments.
C13_CountersAndCache ==
    /\ memo.calls = memo.made
    /\ memo.jumps = memo.answered_from_cache
    /\ memo.jumps <= memo.calls
    /\ Len(memo.invoked) = memo.calls - memo.jumps
    /\ \A i, j \in 1..Len(memo.invoked) :
          (memo.invoked[i] = memo.invoked[j] /\ memo.invoked[i] # << >>) => i = j
    /\ memo.made > 0 => memo.value = wrapped_function(memo.arguments)

\* a tuple was answered from the cache and the empty tuple was computed
\* twice
C13_Witness ==
    /\ memo.jumps >= 1
    /\ memo.arguments # << >>
    /\ Len(memo.invoked) = memo.calls - 1
    /\ \E i, j \in 1..Len(memo.invoked) :
          i # j /\ memo.invoked[i] = << >> /\ memo.invoked[j] = << >>

(***************************************************************************)
(* rv_plotter.main                                                         *)
(***************************************************************************)
\* ObservationsData.reduce_offsets: self.radial_velocities -= offsets_array,
\* in place
reduce_offsets(obs, offsets_array) ==
    [obs EXCEPT !.radial_velocities =
        [i \in 1..Len(@) |-> @[i] - offsets_array[i]]]

\* the models rv_optimization.main saves for an observations file: the
\* number of telescopes is the dataset's telescopes_count and the metadata
\* name the file and the jitter
SavedModels ==
    {add_metadata(DopplerOptimizationModel(planets, load_data(table, jitter).telescopes_count, p, p), table, jitter) :
        <<table, planets, jitter, p>> \in
            {<<t, n, j, q>> \in
                ObservationFiles \X (1..MaxPlanets) \X StellarJitters
                    \X UNION {ParamVectors(k) : k \in 5..(5 * MaxPlanets + MaxRows)} :
                /\ load_data(t, j).kind # "raise"
                /\ Len(q) = 5 * n + load_data(t, j).telescopes_count}}

PlotterInit ==
    /\ dsArgs = None
    /\ dsResult = None
    /\ NoModelState
    /\ KeplerIdle
    /\ MainIdle
    /\ DecoratorsAndPlotterIdle

PlotterFailed(exc) == [plot EXCEPT !.pc = "failed", !.error = exc]

\* doppler_model = DopplerOptimizationModel.read_model(args.model_file)
PlotterReadModel ==
    /\ plot.pc = "start"
    /\ \E doppler_model \in SavedModels :
          plot' = [plot EXCEPT !.pc = "load", !.doppler_model = doppler_model]
    /\ UNCHANGED <<solverVars, modelVars, keplerVars, mainVars, decoratorVars>>

\* observations = load_data(doppler_model.observations_file,
\*                          jitter_value=doppler_model.stellar_jitter)
PlotterLoad ==
    /\ plot.pc = "load"
    /\ LET loaded == load_data(plot.doppler_model.observations_file,
                               plot.doppler_model.stellar_jitter)
       IN  plot' = IF loaded.kind = "raise" THEN PlotterFailed(loaded.exc)
                   ELSE [plot EXCEPT !.pc = "reduce", !.loaded = loaded,
                                     !.observations = loaded]
    /\ UNCHANGED <<solverVars, modelVars, keplerVars, mainVars, decoratorVars>>

\* observations.reduce_offsets(
\*     doppler_model.offsets_of_instruments(observations.ids_of_telescopes))
PlotterReduceOffsets ==
    /\ plot.pc = "reduce"
    /\ LET offsets == offsets_of_instruments(plot.doppler_model,
                                             plot.observations.ids_of_telescopes)
       IN  plot' = IF offsets.kind = "raise" THEN PlotterFailed(offsets.exc)
                   ELSE [plot EXCEPT
                            !.pc = "residues",
                            !.observations = reduce_offsets(@, offsets.v)]
    /\ UNCHANGED <<solverVars, modelVars, keplerVars, mainVars, decoratorVars>>

\* residues = doppler_model.residues_array(observations), then plot_dots
PlotterResidues ==
    /\ plot.pc = "residues"
    /\ \E modeled_values \in ModeledValues(plot.loaded) :
          LET residues == residues_array(plot.doppler_model, plot.observations,
                                         modeled_values)
          IN  plot' = IF residues.kind = "raise" THEN PlotterFailed(residues.exc)
                      ELSE [plot EXCEPT !.pc = "plotted",
                                        !.modeled = modeled_values,
                                        !.residues = residues.v]
    /\ UNCHANGED <<solverVars, modelVars, keplerVars, mainVars, decoratorVars>>

PlotterNext ==
    \/ PlotterReadModel
    \/ PlotterLoad
    \/ PlotterReduceOffsets
    \/ PlotterResidues

SpecPlotter == PlotterInit /\ [][PlotterNext]_vars

\* C14: the residual rv_plotter.main displays for observation i is
\* modelVelocity(time_i) - velocity_i as loaded + the offset of the
\* instrument of observation i: the offset enters exactly once.
C14_OffsetEntersOnce ==
    plot.pc = "plotted" =>
        \A i \in 1..plot.loaded.count :
            plot.residues[i] =
                plot.modeled[i] - plot.loaded.radial_velocities[i]
                    + offsets_of_instruments(plot.doppler_model,
                                             plot.loaded.ids_of_telescopes).v[i]

====
